---------------------------- MODULE Spec2Model ----------------------------
(***************************************************************************)
(* Model of docs.py, the documentation post-processor of serenity.         *)
(*                                                                         *)
(*   for filename in glob.glob("target/doc/serenity/**/*.html"):           *)
(*       print('Parsing {}'.format(filename))                              *)
(*       with open(filename) as f:                                         *)
(*           content = f.read()                                            *)
(*       new_content = content.replace(MARKER, MARKER_WITH_IMG, 1)         *)
(*       if new_content != content:                                        *)
(*           with open(filename, 'w') as f:                                *)
(*               f.write(new_content)                                      *)
(*                                                                         *)
(* Text is a sequence of tokens.  The tag <nav class="sidebar"> is the one *)
(* token "NAV", the injected <img src="..."> tag the one token "IMG",      *)
(* "LF" and "CR" are the two line-ending characters and "x" is any other   *)
(* text.  The marker starts with the only "<" it holds, so two of its      *)
(* occurrences never overlap and tokenising the tag loses no match.        *)
(*                                                                         *)
(* A path is the sequence of its components below target/doc/serenity/;    *)
(* a component is a sequence of name tokens ("." is the dot character).    *)
(***************************************************************************)
EXTENDS Naturals, Sequences, FiniteSets

VARIABLES
    disk,         \* path -> bytes on disk, for every existing file
    linesep,      \* os.linesep of the platform the script runs on
    pc,           \* position of the script
    files,        \* what is left of the list glob.glob returned
    filename,     \* loop variable
    content,      \* local: text read from the file
    new_content,  \* local: text after the replace
    handles,      \* open file objects, [file, mode]
    log,          \* I/O operations of the current run, in order
    run,          \* number of the current run (the script is re-invoked)
    aborted,      \* whether an earlier run ended in an I/O error
    runStart,     \* disk when the current run started
    disk0         \* disk before the first run

vars == <<disk, linesep, pc, files, filename, content, new_content, handles,
          log, run, aborted, runStart, disk0>>

---------------------------------------------------------------------------
(* Bounds *)

MaxFiles == 2

MaxRuns == 2

MaxLen == 4

---------------------------------------------------------------------------
(* Text: line 8's literals and str.replace *)

Alphabet == {"NAV", "IMG", "LF", "CR", "x"}

\* '<nav class="sidebar">\n'
Marker == <<"NAV", "LF">>

InjectedAfterNewline == <<"NAV", "LF", "IMG">>

\* '<nav class="sidebar"><img src="https://.../docs_header.png">\n'
Injected == <<"NAV", "IMG", "LF">>

Drop(s, n) == SubSeq(s, n + 1, Len(s))

\* str.find: index (from 1) of the leftmost occurrence of sub in s, 0 if none
RECURSIVE FindFrom(_, _, _)
FindFrom(s, sub, i) ==
    IF i + Len(sub) - 1 > Len(s) THEN 0
    ELSE IF SubSeq(s, i, i + Len(sub) - 1) = sub THEN i
    ELSE FindFrom(s, sub, i + 1)

Find(s, sub) == FindFrom(s, sub, 1)

\* str.replace(old, new, count): the leftmost count occurrences, left to
\* right, non-overlapping; count < 0 is "all" (old is never empty here)
RECURSIVE str_replace(_, _, _, _)
str_replace(s, old, new, count) ==
    LET i == Find(s, old) IN
    IF count = 0 \/ i = 0 THEN s
    ELSE SubSeq(s, 1, i - 1) \o new
         \o str_replace(Drop(s, i + Len(old) - 1), old, new,
                        IF count < 0 THEN count ELSE count - 1)

ReplaceAll(c) == str_replace(c, Marker, Injected, 0 - 1)

\* line 8: content.replace(MARKER, MARKER_WITH_IMG, 1)
Patch(c) == str_replace(c, Marker, Injected, 1)

---------------------------------------------------------------------------
(* Text-mode file I/O: open(filename) and open(filename, 'w') use the      *)
(* default newline=None                                                    *)

\* reading: "\r\n" and "\r" are translated to "\n"
RECURSIVE Decode(_)
Decode(b) ==
    IF b = <<>> THEN <<>>
    ELSE IF Head(b) = "CR"
         THEN IF Len(b) >= 2 /\ b[2] = "LF"
              THEN <<"LF">> \o Decode(Drop(b, 2))
              ELSE <<"LF">> \o Decode(Tail(b))
    ELSE <<Head(b)>> \o Decode(Tail(b))

\* writing: "\n" is translated to os.linesep
RECURSIVE Encode(_, _)
Encode(t, sep) ==
    IF t = <<>> THEN <<>>
    ELSE (IF Head(t) = "LF" THEN sep ELSE <<Head(t)>>) \o Encode(Tail(t), sep)

Platforms == {<<"LF">>, <<"CR", "LF">>}

---------------------------------------------------------------------------
(* File tree and glob.glob("target/doc/serenity/**/*.html")                *)

IndexHtml == <<"index", ".", "html">>

Paths ==
    { <<IndexHtml>>,
      <<<<"model">>, IndexHtml>>,
      <<<<"utils">>, IndexHtml>>,
      <<<<"model">>, <<"id">>, IndexHtml>>,
      <<<<"model">>, <<"main", ".", "css">>>> }

IsHtml(name) ==
    /\ Len(name) >= 2
    /\ name[Len(name) - 1] = "."
    /\ name[Len(name)] = "html"

\* fnmatch of one path component; a wildcard never matches a leading dot
MatchStar(name) == name # <<>> /\ Head(name) # "."

MatchStarHtml(name) == MatchStar(name) /\ IsHtml(name)

\* line 3: recursive is not passed, so "**" matches as "*" does: exactly one
\* directory level
Glob(existing) ==
    { p \in existing : /\ Len(p) = 2
                       /\ MatchStar(p[1])
                       /\ MatchStarHtml(p[2]) }

Orderings(S) ==
    { s \in [1..Cardinality(S) -> S] : \A i, j \in 1..Cardinality(S) :
                                          i # j => s[i] # s[j] }

---------------------------------------------------------------------------
(* Initial states *)

RECURSIVE Strings(_)
Strings(n) ==
    IF n = 0 THEN {<<>>}
    ELSE LET shorter == Strings(n - 1) IN
         shorter \cup { Append(s, a) : s \in { t \in shorter : Len(t) = n - 1 },
                                       a \in Alphabet }

\* what the generated files hold before the first run
Samples ==
    { <<"x">>,
      <<"NAV", "LF", "x">>,
      <<"NAV", "LF", "x", "NAV", "LF">>,
      <<"NAV", "CR", "LF", "x">> }

Trees == { t \in SUBSET Paths : Cardinality(t) <= MaxFiles }

Init ==
    /\ \E t \in Trees : disk \in [t -> Samples]
    /\ linesep \in Platforms
    /\ pc = "glob"
    /\ files = <<>>
    /\ filename = <<>>
    /\ content = <<>>
    /\ new_content = <<>>
    /\ handles = {}
    /\ log = <<>>
    /\ run = 1
    /\ aborted = FALSE
    /\ runStart = disk
    /\ disk0 = disk

Event(op, ok) == [op |-> op, file |-> filename, ok |-> ok]

Handle(mode) == [file |-> filename, mode |-> mode]

history == <<run, aborted, runStart, disk0>>

---------------------------------------------------------------------------
(* The script, one action per step *)

GlobFilesTwice ==
    /\ pc = "glob"
    /\ \E order \in Orderings(Glob(DOMAIN disk)) : files' = order \o order
    /\ pc' = "for"
    /\ UNCHANGED <<disk, linesep, filename, content, new_content, handles,
                   log, history>>

\* line 3: glob.glob(...); the order of the list is the file system's
GlobFiles ==
    /\ pc = "glob"
    /\ \E order \in Orderings(Glob(DOMAIN disk)) : files' = order
    /\ pc' = "for"
    /\ UNCHANGED <<disk, linesep, filename, content, new_content, handles,
                   log, history>>

\* lines 3-4: the next filename, announced
ForNext ==
    /\ pc = "for"
    /\ files # <<>>
    /\ filename' = Head(files)
    /\ files' = Tail(files)
    /\ log' = Append(log, [op |-> "print", file |-> Head(files), ok |-> TRUE])
    /\ pc' = "open_r"
    /\ UNCHANGED <<disk, linesep, content, new_content, handles, history>>

\* line 3: the list is exhausted
ForEnd ==
    /\ pc = "for"
    /\ files = <<>>
    /\ pc' = "done"
    /\ UNCHANGED <<disk, linesep, files, filename, content, new_content,
                   handles, log, history>>

\* line 5: open(filename)
OpenRead ==
    /\ pc = "open_r"
    /\ handles' = handles \cup {Handle("r")}
    /\ log' = Append(log, Event("open_r", TRUE))
    /\ pc' = "read"
    /\ UNCHANGED <<disk, linesep, files, filename, content, new_content,
                   history>>

OpenReadSkip ==
    /\ pc = "open_r"
    /\ log' = Append(log, Event("open_r", FALSE))
    /\ pc' = "for"
    /\ UNCHANGED <<disk, linesep, files, filename, content, new_content,
                   handles, history>>

\* line 5 raises OSError
OpenReadFail ==
    /\ pc = "open_r"
    /\ log' = Append(log, Event("open_r", FALSE))
    /\ pc' = "error"
    /\ UNCHANGED <<disk, linesep, files, filename, content, new_content,
                   handles, history>>

ReadLeak ==
    /\ pc = "read"
    /\ content' = Decode(disk[filename])
    /\ log' = Append(log, Event("read", TRUE))
    /\ pc' = "replace"
    /\ UNCHANGED <<disk, linesep, files, filename, new_content, handles,
                   history>>

ReadAccumulate ==
    /\ pc = "read"
    /\ content' = content \o Decode(disk[filename])
    /\ handles' = handles \ {Handle("r")}
    /\ log' = Append(log, Event("read", TRUE))
    /\ pc' = "replace"
    /\ UNCHANGED <<disk, linesep, files, filename, new_content, history>>

\* line 6: content = f.read(), and the with block closes f
Read ==
    /\ pc = "read"
    /\ content' = Decode(disk[filename])
    /\ handles' = handles \ {Handle("r")}
    /\ log' = Append(log, Event("read", TRUE))
    /\ pc' = "replace"
    /\ UNCHANGED <<disk, linesep, files, filename, new_content, history>>

\* line 6 raises (OSError, UnicodeDecodeError); the with block closes f
ReadFail ==
    /\ pc = "read"
    /\ handles' = handles \ {Handle("r")}
    /\ log' = Append(log, Event("read", FALSE))
    /\ pc' = "error"
    /\ UNCHANGED <<disk, linesep, files, filename, content, new_content,
                   history>>

\* line 8
Replace ==
    /\ pc = "replace"
    /\ new_content' = Patch(content)
    /\ pc' = "if"
    /\ UNCHANGED <<disk, linesep, files, filename, content, handles, log,
                   history>>

IfAlways ==
    /\ pc = "if"
    /\ pc' = "open_w"
    /\ UNCHANGED <<disk, linesep, files, filename, content, new_content,
                   handles, log, history>>

\* line 10: new_content != content
IfChanged ==
    /\ pc = "if"
    /\ new_content # content
    /\ pc' = "open_w"
    /\ UNCHANGED <<disk, linesep, files, filename, content, new_content,
                   handles, log, history>>

\* line 10: new_content == content, on to the next file
IfSame ==
    /\ pc = "if"
    /\ new_content = content
    /\ pc' = "for"
    /\ UNCHANGED <<disk, linesep, files, filename, content, new_content,
                   handles, log, history>>

\* line 11: open(filename, 'w') truncates the file
OpenWrite ==
    /\ pc = "open_w"
    /\ disk' = [disk EXCEPT ![filename] = <<>>]
    /\ handles' = handles \cup {Handle("w")}
    /\ log' = Append(log, Event("open_w", TRUE))
    /\ pc' = "write"
    /\ UNCHANGED <<linesep, files, filename, content, new_content, history>>

\* line 11 raises OSError: nothing was opened, nothing truncated
OpenWriteFail ==
    /\ pc = "open_w"
    /\ log' = Append(log, Event("open_w", FALSE))
    /\ pc' = "error"
    /\ UNCHANGED <<disk, linesep, files, filename, content, new_content,
                   handles, history>>

\* line 12: f.write(new_content), and the with block flushes and closes f
Write ==
    /\ pc = "write"
    /\ disk' = [disk EXCEPT ![filename] = Encode(new_content, linesep)]
    /\ handles' = handles \ {Handle("w")}
    /\ log' = Append(log, Event("write", TRUE))
    /\ pc' = "for"
    /\ UNCHANGED <<linesep, files, filename, content, new_content, history>>

\* line 12 raises OSError: some strict prefix of the bytes reached the disk
WriteFail ==
    /\ pc = "write"
    /\ \E n \in 0..(Len(Encode(new_content, linesep)) - 1) :
          disk' = [disk EXCEPT
                     ![filename] = SubSeq(Encode(new_content, linesep), 1, n)]
    /\ handles' = handles \ {Handle("w")}
    /\ log' = Append(log, Event("write", FALSE))
    /\ pc' = "error"
    /\ UNCHANGED <<linesep, files, filename, content, new_content, history>>

\* the script is invoked again, after it finished or aborted
Rerun ==
    /\ pc \in {"done", "error"}
    /\ run < MaxRuns
    /\ run' = run + 1
    /\ aborted' = (aborted \/ pc = "error")
    /\ runStart' = disk
    /\ log' = <<>>
    /\ pc' = "glob"
    /\ files' = <<>>
    /\ filename' = <<>>
    /\ content' = <<>>
    /\ new_content' = <<>>
    /\ handles' = {}
    /\ UNCHANGED <<disk, linesep, disk0>>

RunStep ==
    \/ GlobFiles
    \/ ForNext
    \/ ForEnd
    \/ OpenRead
    \/ OpenReadFail
    \/ Read
    \/ ReadFail
    \/ Replace
    \/ IfChanged
    \/ IfSame
    \/ OpenWrite
    \/ OpenWriteFail
    \/ Write
    \/ WriteFail

Next == RunStep \/ Rerun

Spec == Init /\ [][Next]_vars


\* one invocation of the script; a sequential program takes its next step
\* whenever it has one
FairSpec == Init /\ [][RunStep]_vars /\ WF_vars(RunStep)

---------------------------------------------------------------------------
(* One file of arbitrary short content, one run, no I/O failure *)

InitOneFile ==
    /\ disk \in [{<<<<"model">>, IndexHtml>>} -> Strings(MaxLen)]
    /\ linesep \in Platforms
    /\ pc = "glob"
    /\ files = <<>>
    /\ filename = <<>>
    /\ content = <<>>
    /\ new_content = <<>>
    /\ handles = {}
    /\ log = <<>>
    /\ run = 1
    /\ aborted = FALSE
    /\ runStart = disk
    /\ disk0 = disk

NextOneFile ==
    \/ GlobFiles
    \/ ForNext
    \/ ForEnd
    \/ OpenRead
    \/ Read
    \/ Replace
    \/ IfChanged
    \/ IfSame
    \/ OpenWrite
    \/ Write

SpecOneFile == InitOneFile /\ [][NextOneFile]_vars

---------------------------------------------------------------------------
(* Vocabulary of the properties *)

\* positions at which t holds the marker, by its two characters
OccurrencesAt(t) == { i \in 1..(Len(t) - 1) : t[i] = "NAV" /\ t[i + 1] = "LF" }

HasMarker(t) == OccurrencesAt(t) # {}

FirstOccurrence(t) ==
    CHOOSE i \in OccurrencesAt(t) : \A j \in OccurrencesAt(t) : i <= j

\* t with the <img> tag put between the tag and the newline of the leftmost
\* marker, nothing else touched
SpliceFirst(t) ==
    LET i == FirstOccurrence(t) IN
    SubSeq(t, 1, i) \o <<"IMG">> \o SubSeq(t, i + 1, Len(t))

\* the File Set of a run: what the enumeration yields
FileSet == Glob(DOMAIN disk)

EventsOf(f, op) == { i \in 1..Len(log) : log[i].file = f /\ log[i].op = op }

Failed == { i \in 1..Len(log) : ~log[i].ok }

Remaining == { files[i] : i \in 1..Len(files) }

\* what one failure-free run leaves of bytes b in a file of the File Set
PatchedOnce(b) ==
    IF HasMarker(Decode(b)) THEN Encode(SpliceFirst(Decode(b)), linesep) ELSE b

Finished == pc \in {"done", "error"}

---------------------------------------------------------------------------
(* Properties *)

\* C1, as stated: after two failure-free runs in succession every file,
\* whatever the number of markers it holds, has the content the first run
\* left, and the second run opened nothing for writing.
C1_IdempotentAll ==
    (pc = "done" /\ run >= 2 /\ ~aborted) =>
        \A f \in DOMAIN disk :
            disk[f] = runStart[f] /\ EventsOf(f, "open_w") = {}

\* C1, amended: a file whose text holds the marker at most once has, after
\* two failure-free runs in succession, the content the first run left, and
\* the second run does not open it for writing.
C1_IdempotentSingleMarker ==
    (pc = "done" /\ run >= 2 /\ ~aborted) =>
        \A f \in DOMAIN disk :
            Cardinality(OccurrencesAt(Decode(disk0[f]))) <= 1 =>
                disk[f] = runStart[f] /\ EventsOf(f, "open_w") = {}

C1_Witness ==
    /\ pc = "done" /\ run = 2 /\ ~aborted
    /\ \E f \in FileSet :
          /\ Cardinality(OccurrencesAt(Decode(disk0[f]))) = 1
          /\ disk[f] # disk0[f]
          /\ EventsOf(f, "read") # {}

\* C2: when a run ends without failure, every existing file with the .html
\* extension, at any depth below target/doc/serenity/, was read, and holds
\* the patched content if it held the marker.
C2_EveryDepthEnumerated ==
    pc = "done" =>
        \A p \in DOMAIN disk :
            IsHtml(p[Len(p)]) =>
                /\ EventsOf(p, "read") # {}
                /\ disk[p] = PatchedOnce(runStart[p])

\* C3: for text holding the marker, the replace yields the text with the
\* <img> tag inserted into the leftmost marker and nothing else changed, and
\* that is the text of the file when the run is done.
C3_ReplaceFirst ==
    /\ (pc \in {"if", "open_w", "write"} /\ HasMarker(content)) =>
           new_content = SpliceFirst(content)
    /\ pc = "done" =>
           \A f \in FileSet :
               HasMarker(Decode(disk0[f])) =>
                   Decode(disk[f]) = SpliceFirst(Decode(disk0[f]))

C3_Witness ==
    /\ pc = "done"
    /\ \E f \in FileSet :
          /\ Decode(disk0[f]) = <<"NAV", "LF", "NAV", "LF">>
          /\ Decode(disk[f]) = <<"NAV", "IMG", "LF", "NAV", "LF">>

\* C4: a file of the File Set whose text does not hold the marker is never
\* opened for writing and keeps its bytes, in every state of the run.
C4_Selectivity ==
    \A f \in FileSet :
        ~HasMarker(Decode(runStart[f])) =>
            /\ disk[f] = runStart[f]
            /\ EventsOf(f, "open_w") = {}
            /\ [file |-> f, mode |-> "w"] \notin handles

C4_Witness ==
    /\ pc = "done"
    /\ \E f \in FileSet :
          /\ ~HasMarker(Decode(runStart[f]))
          /\ EventsOf(f, "read") # {}
          /\ disk[f] = <<"x">>

C5_ErrorState ==
    pc = "error" =>
        /\ log # <<>>
        /\ Failed = {Len(log)}
        /\ log[Len(log)].file = filename
        /\ handles = {}
        /\ \A f \in Remaining :
              /\ disk[f] = runStart[f]
              /\ \A i \in 1..Len(log) : log[i].file # f

C5_Halted ==
    pc = "error" => (pc' = "glob" /\ run' = run + 1 /\ disk' = disk)

\* C5: the run is in the error state right after its first failed
\* operation, with no handle open and the files not yet reached untouched
\* and unannounced; from there nothing more is announced, read or written
\* and nothing is retried: the only step left is a new invocation.
C5_FailFast == []C5_ErrorState /\ [][C5_Halted]_vars

C5_Witness ==
    /\ pc = "error"
    /\ files # <<>>
    /\ log[Len(log)].op = "write"
    /\ HasMarker(Decode(runStart[files[1]]))

C6_ExactlyOnceAtDone ==
    pc = "done" =>
        /\ \A f \in FileSet :
              /\ Cardinality(EventsOf(f, "print")) = 1
              /\ Cardinality(EventsOf(f, "open_r")) = 1
              /\ Cardinality(EventsOf(f, "read")) = 1
              /\ Cardinality(EventsOf(f, "open_w")) =
                     Cardinality(EventsOf(f, "write"))
              /\ Cardinality(EventsOf(f, "write")) =
                     IF HasMarker(Decode(runStart[f])) THEN 1 ELSE 0
        /\ \A i \in 1..Len(log) : log[i].file \in FileSet /\ log[i].ok
        /\ FileSet = {} => (log = <<>> /\ disk = runStart)

C6_RunTerminates == (pc = "glob") ~> Finished

\* C6: every run ends; one that ends without failure has read each file of
\* the File Set once and written it once if its text held the marker and not
\* at all otherwise; with an empty File Set it has done no file operation.
C6_ExactlyOnce == []C6_ExactlyOnceAtDone /\ C6_RunTerminates

C6_Witness ==
    /\ pc = "done"
    /\ Cardinality(FileSet) = 2
    /\ \E f, g \in FileSet :
          /\ Cardinality(EventsOf(f, "write")) = 1
          /\ Cardinality(EventsOf(g, "write")) = 0

\* C7: when a run completes after an earlier run aborted on an I/O failure,
\* every file holds what one failure-free run would have made of the
\* original files.
C7_RerunRecovers ==
    (pc = "done" /\ aborted) =>
        \A f \in DOMAIN disk :
            disk[f] = IF f \in FileSet THEN PatchedOnce(disk0[f]) ELSE disk0[f]

\* C8: whatever the order of the enumeration, a failure-free run leaves in
\* each file a content that is a function of that file's own content at the
\* start of the run, and of nothing else.
C8_OrderIndependent ==
    pc = "done" =>
        \A f \in DOMAIN disk :
            disk[f] = IF f \in FileSet THEN PatchedOnce(runStart[f])
                      ELSE runStart[f]

C8_Witness ==
    /\ pc = "done"
    /\ Cardinality(FileSet) = 2
    /\ log[1].file = <<<<"utils">>, IndexHtml>>
    /\ \A f \in FileSet : disk[f] # runStart[f]
    /\ \E f, g \in FileSet : runStart[f] # runStart[g]

\* C9: at most one handle is open, it is on the current file, the read
\* handle only while reading and the write handle only while writing; none is
\* open between files, before the write handle is acquired, or after a
\* failure.
C9_SequentialHandles ==
    /\ Cardinality(handles) <= 1
    /\ pc = "read" => handles = {[file |-> filename, mode |-> "r"]}
    /\ pc = "write" => handles = {[file |-> filename, mode |-> "w"]}
    /\ pc \notin {"read", "write"} => handles = {}

C9_Witness ==
    /\ pc = "error"
    /\ log[Len(log)].op = "write"
    /\ EventsOf(filename, "read") # {}
    /\ handles = {}

\* C10: in every state each file holds either its content at the start of
\* the run or its fully patched content.
C10_NoPartialContent ==
    \A f \in DOMAIN disk :
        disk[f] = runStart[f] \/ disk[f] = PatchedOnce(runStart[f])

=============================================================================
